---- MODULE Spec2Model ----
(***************************************************************************)
(* Model of the preprocessing stages of regional_downscaling/provider/     *)
(* preprocess.py.  Every stage is a pure function of an xarray Dataset;    *)
(* it is written here as an operator returning a record                     *)
(*     [err |-> the exception raised or "none", ds |-> the dataset]         *)
(* and one action per stage applies it to the dataset the caller holds.    *)
(* Each stage has its own specification, whose Init draws the stage's       *)
(* input from a bounded set of datasets; the specification of preprocess    *)
(* runs the four stages one after the other on one dataset.                 *)
(* download_cerra_data of provider/download.py has a specification of its  *)
(* own, over the arguments of the call and the files that exist.            *)
(***************************************************************************)
EXTENDS Integers, Sequences, FiniteSets, TLC

VARIABLES
    dataset,    \* Coordinate Normalizer: the dataset the caller holds
    input,      \* Coordinate Normalizer: the argument of the latest call
    rules,      \* Coordinate Normalizer: the branch taken by each call so far
    err,        \* Coordinate Normalizer: exception of the latest call, or "none"
    grid,       \* Longitude Normalizer: the dataset the caller holds
    gridIn,     \* Longitude Normalizer: the dataset as it was given
    project,    \* Longitude Normalizer: the provider identifier
    lonErr,     \* Longitude Normalizer: exception raised, or "none"
    lonCalls,   \* Longitude Normalizer: calls made so far
    sel,        \* Variable Selector: the dataset the caller holds
    selIn,      \* Variable Selector: the dataset as it was given
    variable,   \* Variable Selector: the canonical variable name
    var_mapping, \* Variable Selector: the variable map
    var_name,   \* Variable Selector: the source name it resolved
    selErr,     \* Variable Selector: exception raised, or "none"
    selCalls,   \* Variable Selector: calls made so far
    unitDs,     \* Unit Converter: the dataset the caller holds
    unitIn,     \* Unit Converter: the dataset as it was given
    unitPrev,   \* Unit Converter: the dataset before the latest call
    unitErr,    \* Unit Converter: exception of the latest call, or "none"
    unitCalls,  \* Unit Converter: calls made so far
    pipeDs,     \* preprocess: the dataset its local variable ds holds
    pipeIn,     \* preprocess: the dataset it was given
    pipeProject, \* preprocess: the provider identifier it was given
    pipeVariable, \* preprocess: the canonical variable name it was given
    pipeMap,    \* preprocess: the variable map it was given
    pc,         \* preprocess: the statement it executes next
    ran,        \* preprocess: the stages called so far, in order
    given,      \* preprocess: the dataset passed to each stage called
    outs,       \* preprocess: what each stage called raised and returned
    raised,     \* preprocess: the exception that reached the caller, or "none"
    result,     \* preprocess: the dataset returned to the caller, if any
    dlArgs,     \* download_cerra_data: the arguments of every call
    files,      \* download_cerra_data: the paths of the files that exist
    dirs,       \* download_cerra_data: the paths of the directories that exist
    dlLog       \* download_cerra_data: what each call so far did and returned

coordVars == <<dataset, input, rules, err>>

lonVars == <<grid, gridIn, project, lonErr, lonCalls>>

selVars == <<sel, selIn, variable, var_mapping, var_name, selErr, selCalls>>

unitVars == <<unitDs, unitIn, unitPrev, unitErr, unitCalls>>

pipeVars ==
    <<pipeDs, pipeIn, pipeProject, pipeVariable, pipeMap, pc, ran, given, outs,
      raised, result>>

downloadVars == <<dlArgs, files, dirs, dlLog>>

vars ==
    <<dataset, input, rules, err, grid, gridIn, project, lonErr, lonCalls,
      sel, selIn, variable, var_mapping, var_name, selErr, selCalls,
      unitDs, unitIn, unitPrev, unitErr, unitCalls,
      pipeDs, pipeIn, pipeProject, pipeVariable, pipeMap, pc, ran, given, outs,
      raised, result, dlArgs, files, dirs, dlLog>>

(***************************************************************************)
(* Bounds of the model.                                                    *)
(***************************************************************************)
MaxDims == 2        \* dimension names of a dataset given to the normalizer
MaxCoords == 4      \* coordinate names of a dataset given to the normalizer
MaxCalls == 2       \* successive applications of a stage to its own output
MaxLon == 3         \* length of a longitude axis
MaxVars == 2        \* data variables of a dataset given to the selector
MaxUnitVars == 2    \* data variables of a dataset given to the converter
MaxDownloads == 2   \* successive calls of download_cerra_data

\* No dataset: what the caller of preprocess holds until preprocess returns.
NoDataset == [none |-> TRUE]

\* preprocess is not part of this specification.
IdlePipe ==
    /\ pipeDs = NoDataset
    /\ pipeIn = NoDataset
    /\ pipeProject = "ERA5"
    /\ pipeVariable = "tas"
    /\ pipeMap = <<>>
    /\ pc = "idle"
    /\ ran = <<>>
    /\ given = <<>>
    /\ outs = <<>>
    /\ raised = "none"
    /\ result = NoDataset

\* download_cerra_data is not part of this specification.
IdleDownload ==
    /\ dlArgs = [none |-> TRUE]
    /\ files = {}
    /\ dirs = {}
    /\ dlLog = <<>>

(***************************************************************************)
(* xarray datasets, as far as the Coordinate Normalizer reads them: the    *)
(* set of dimension names (dataset.dims) and the set of coordinate names   *)
(* (dataset.coords).  A name in dims only is a dimension without a         *)
(* coordinate variable, a name in coords only is a non-dimension            *)
(* coordinate (for instance a 2-D longitude(y, x)).                         *)
(***************************************************************************)
SpatialNames ==
    {"rlon", "rlat", "i", "j", "longitude", "latitude", "lon", "lat", "x", "y"}

Has(ds, n) == n \in ds.dims \/ n \in ds.coords

\* The value of name_dict.get(n, n).
Renamed(name_dict, n) == IF n \in DOMAIN name_dict THEN name_dict[n] ELSE n

\* xarray.Dataset.rename(name_dict): ValueError when a key is neither a
\* variable nor a dimension of the dataset, ValueError when two variables end
\* up with the same name; otherwise every dimension and every variable is
\* renamed.
DatasetRename(ds, name_dict) ==
    LET missing == \E k \in DOMAIN name_dict : ~Has(ds, k)
        conflict == \E a, b \in ds.coords :
                        a # b /\ Renamed(name_dict, a) = Renamed(name_dict, b)
    IN  IF missing \/ conflict
        THEN [err |-> "ValueError", ds |-> ds]
        ELSE [err |-> "none",
              ds  |-> [dims   |-> {Renamed(name_dict, d) : d \in ds.dims},
                       coords |-> {Renamed(name_dict, c) : c \in ds.coords}]]

\* The name_dict of each renaming branch of fix_spatial_coord_names.
RotatedAndGeographic ==
    [k \in {"rlon", "rlat", "longitude", "latitude"} |->
        CASE k = "rlon" -> "x" [] k = "rlat" -> "y"
          [] k = "longitude" -> "lon" [] k = "latitude" -> "lat"]

IndexAndGeographic ==
    [k \in {"i", "j", "longitude", "latitude"} |->
        CASE k = "i" -> "x" [] k = "j" -> "y"
          [] k = "longitude" -> "lon" [] k = "latitude" -> "lat"]

RotatedOnly == [k \in {"rlon", "rlat"} |-> IF k = "rlon" THEN "x" ELSE "y"]

ProjectedOnly == [k \in {"x", "y"} |-> IF k = "x" THEN "lon" ELSE "lat"]

GeographicOnly ==
    [k \in {"longitude", "latitude"} |-> IF k = "longitude" THEN "lon" ELSE "lat"]

NoRenaming == [k \in {} |-> k]

\* The name_dict of branch r (branches 4 and 7 rename nothing).
RuleMap(r) ==
    CASE r = 1 -> RotatedAndGeographic
      [] r = 2 -> IndexAndGeographic
      [] r = 3 -> RotatedOnly
      [] r = 5 -> ProjectedOnly
      [] r = 6 -> GeographicOnly
      [] OTHER -> NoRenaming

\* A plausible slip: the projected-axes test placed before the lon test.
SwappedBranch(ds) ==
    IF Has(ds, "rlon") /\ Has(ds, "longitude") THEN 1
    ELSE IF Has(ds, "i") /\ Has(ds, "longitude") THEN 2
    ELSE IF Has(ds, "rlon") THEN 3
    ELSE IF "x" \in ds.dims \/ "y" \in ds.coords THEN 5
    ELSE IF Has(ds, "lon") THEN 4
    ELSE IF Has(ds, "longitude") THEN 6
    ELSE 7

\* The branch of the if/elif chain that the dataset selects (7: the final
\* else, which raises NotImplementedError).
SelectedBranch(ds) ==
    IF Has(ds, "rlon") /\ Has(ds, "longitude") THEN 1
    ELSE IF Has(ds, "i") /\ Has(ds, "longitude") THEN 2
    ELSE IF Has(ds, "rlon") THEN 3
    ELSE IF Has(ds, "lon") THEN 4
    ELSE IF "x" \in ds.dims \/ "y" \in ds.coords THEN 5
    ELSE IF Has(ds, "longitude") THEN 6
    ELSE 7

\* fix_spatial_coord_names(dataset): the branch taken, the exception raised
\* and the dataset returned.
fix_spatial_coord_names(ds) ==
    LET r == SelectedBranch(ds)
    IN  IF r = 7 THEN [rule |-> 7, err |-> "NotImplementedError", ds |-> ds]
        ELSE IF r = 4 THEN [rule |-> 4, err |-> "none", ds |-> ds]
        ELSE [rule |-> r] @@ DatasetRename(ds, RuleMap(r))

(***************************************************************************)
(* Coordinate Normalizer: the caller applies fix_spatial_coord_names to    *)
(* the dataset it holds, and may apply it again to the dataset returned.   *)
(***************************************************************************)
CoordDatasets ==
    {[dims |-> d, coords |-> c] :
        d \in {s \in SUBSET SpatialNames : Cardinality(s) <= MaxDims},
        c \in {s \in SUBSET SpatialNames : Cardinality(s) <= MaxCoords}}

\* The Longitude Normalizer is not part of this specification.
IdleLon ==
    /\ grid = [lonname |-> "lon", lon |-> <<0>>, cols |-> <<1>>,
               lon_ndim |-> 1, lat_ndim |-> 1]
    /\ gridIn = grid
    /\ project = "ERA5"
    /\ lonErr = "none"
    /\ lonCalls = 0

\* The Variable Selector is not part of this specification.
IdleSel ==
    /\ sel = [vars |-> <<>>, coords |-> <<>>, height |-> 0]
    /\ selIn = sel
    /\ variable = "tas"
    /\ var_mapping = <<>>
    /\ var_name = ""
    /\ selErr = "none"
    /\ selCalls = 0

\* The Unit Converter is not part of this specification.
IdleUnits ==
    /\ unitDs = <<>>
    /\ unitIn = <<>>
    /\ unitPrev = <<>>
    /\ unitErr = "none"
    /\ unitCalls = 0

InitCoord ==
    /\ dataset \in CoordDatasets
    /\ input = dataset
    /\ rules = <<>>
    /\ err = "none"
    /\ IdleLon
    /\ IdleSel
    /\ IdleUnits
    /\ IdlePipe
    /\ IdleDownload

NormalizeCoords ==
    /\ Len(rules) < MaxCalls
    /\ err = "none"
    /\ LET r == fix_spatial_coord_names(dataset)
       IN  /\ input' = dataset
           /\ rules' = Append(rules, r.rule)
           /\ err' = r.err
           /\ dataset' = IF r.err = "none" THEN r.ds ELSE dataset
    /\ UNCHANGED <<lonVars, selVars, unitVars, pipeVars, downloadVars>>

NextCoord == NormalizeCoords

SpecCoord == InitCoord /\ [][NextCoord]_vars

(***************************************************************************)
(* Claims about the Coordinate Normalizer.                                 *)
(***************************************************************************)
Names(ds) == ds.dims \cup ds.coords

CanonicalNames == {"lon", "lat", "x", "y"}

LastRule == rules[Len(rules)]

\* Rule 5 and rule 6 of the documented decision order, read strictly (both
\* names of the pair present, and for rule 5 neither lon nor lat) or loosely
\* (one name of the pair present).
ProjectedPresent(ds, strict) ==
    IF strict THEN Has(ds, "x") /\ Has(ds, "y") /\ ~Has(ds, "lat")
    ELSE Has(ds, "x") \/ Has(ds, "y")

GeographicPresent(ds, strict) ==
    IF strict THEN Has(ds, "longitude") /\ Has(ds, "latitude")
    ELSE Has(ds, "longitude") \/ Has(ds, "latitude")

\* The first matching rule of the documented list, by the names present.
DocumentedRule(ds, strict5, strict6) ==
    IF Has(ds, "rlon") /\ Has(ds, "longitude") THEN 1
    ELSE IF Has(ds, "i") /\ Has(ds, "longitude") THEN 2
    ELSE IF Has(ds, "rlon") THEN 3
    ELSE IF Has(ds, "lon") THEN 4
    ELSE IF ProjectedPresent(ds, strict5) THEN 5
    ELSE IF GeographicPresent(ds, strict6) THEN 6
    ELSE 7

DocumentedRules(ds) ==
    {DocumentedRule(ds, s5, s6) : s5 \in BOOLEAN, s6 \in BOOLEAN}

\* C1: the normalizer applies the first matching rule of the documented
\* list for every combination of present names (under some reading of rules
\* 5 and 6), fails with the unrecognized-schema error exactly in case 7, and
\* a successful call returns the dataset renamed by that rule.
C1_FirstMatchingRuleApplies ==
    rules # <<>> =>
        /\ LastRule \in DocumentedRules(input)
        /\ (LastRule = 7) <=> (err = "NotImplementedError")
        /\ err = "none" =>
              /\ dataset.dims = {Renamed(RuleMap(LastRule), d) : d \in input.dims}
              /\ dataset.coords =
                    {Renamed(RuleMap(LastRule), c) : c \in input.coords}

\* C2 as stated: on a dataset whose names are all canonical (with a full
\* pair of axes) the normalizer changes nothing, and a second application to
\* its own output succeeds and changes nothing.
C2_NoOpOnCanonicalAndIdempotent ==
    rules # <<>> =>
        /\ ( /\ Names(input) \subseteq CanonicalNames
             /\ ({"x", "y"} \subseteq Names(input)
                    \/ {"lon", "lat"} \subseteq Names(input)) )
              => (err = "none" /\ dataset = input)
        /\ Len(rules) >= 2 => (err = "none" /\ dataset = input)

\* C2 amended: on a canonical dataset that carries lon the normalizer
\* changes nothing, and whenever the output of a successful application
\* carries lon, applying the normalizer again succeeds and changes nothing.
C2_NoOpWhenLonPresent ==
    rules # <<>> =>
        /\ (Names(input) \subseteq CanonicalNames /\ Has(input, "lon"))
              => (err = "none" /\ dataset = input)
        /\ (Len(rules) >= 2 /\ Has(input, "lon"))
              => (err = "none" /\ dataset = input)

\* A rotated grid with geographic coordinates was renamed by rule 1 and the
\* second application took rule 4.
C2_Witness ==
    /\ Len(rules) >= 2
    /\ rules[1] = 1
    /\ rules[2] = 4
    /\ err = "none"
    /\ dataset = input
    /\ {"x", "y", "lon", "lat"} \subseteq Names(dataset)

(***************************************************************************)
(* Longitude Normalizer.  A dataset is, as far as fix_360_longitudes reads *)
(* it: the name its longitude coordinate is stored under, the longitude    *)
(* values, the data column attached to each position of the longitude      *)
(* axis, and the number of dimensions of the longitude and of the lat      *)
(* coordinate (lat_ndim 0: the dataset has no lat).                        *)
(***************************************************************************)
Lons == {-180, -10, 0, 90, 180, 270, 360, 600}

Projects == {"CERRA", "ERA5", "CERRA-Land"}

\* "CERRA" in project, a substring test, over the identifiers of Projects.
ContainsCERRA(p) == p \in {"CERRA", "CERRA-Land"}

Range(s) == {s[i] : i \in DOMAIN s}

SeqMax(s) == CHOOSE v \in Range(s) : \A w \in Range(s) : w <= v

SeqMin(s) == CHOOSE v \in Range(s) : \A w \in Range(s) : v <= w

\* A plausible slip: lon < 180 for lon <= 180.
RewrapBelow180(v) == IF v < 180 THEN v ELSE v - 360

\* lon.where(lon <= 180, other=lon - 360), for one value.
Rewrap(v) == IF v <= 180 THEN v ELSE v - 360

\* lon.max().values > 180 and lon.min().values >= 0
NeedsRewrap(lon) == SeqMax(lon) > 180 /\ SeqMin(lon) >= 0

RECURSIVE Insert(_, _)
Insert(v, s) ==
    IF s = <<>> THEN <<v>>
    ELSE IF v <= Head(s) THEN <<v>> \o s
    ELSE <<Head(s)>> \o Insert(v, Tail(s))

\* sorted(values)
RECURSIVE Sorted(_)
Sorted(s) == IF s = <<>> THEN <<>> ELSE Insert(Head(s), Sorted(Tail(s)))

HasDuplicates(s) == \E i, j \in DOMAIN s : i # j /\ s[i] = s[j]

PositionOf(s, v) == CHOOSE i \in DOMAIN s : s[i] = v

\* A plausible slip: the sorted labels are assigned to the axis and the data
\* is left where it was.
AssignSortedLabels(ds, labels) ==
    IF ds.lon_ndim = 2 THEN [err |-> "ValueError", ds |-> ds]
    ELSE IF labels = ds.lon THEN [err |-> "none", ds |-> ds]
    ELSE IF HasDuplicates(ds.lon) THEN [err |-> "ValueError", ds |-> ds]
    ELSE [err |-> "none", ds |-> [ds EXCEPT !.lon = labels]]

\* xarray.Dataset.reindex(lon=labels): ValueError when lon is not a
\* 1-D dimension coordinate; nothing to do when the labels are the index;
\* ValueError when the index holds duplicate labels; otherwise every new
\* label takes the data column the old index attached to it.
DatasetReindex(ds, labels) ==
    IF ds.lon_ndim = 2 THEN [err |-> "ValueError", ds |-> ds]
    ELSE IF labels = ds.lon THEN [err |-> "none", ds |-> ds]
    ELSE IF HasDuplicates(ds.lon) THEN [err |-> "ValueError", ds |-> ds]
    ELSE [err |-> "none",
          ds  |-> [ds EXCEPT
                     !.lon = labels,
                     !.cols = [i \in DOMAIN labels |->
                                 ds.cols[PositionOf(ds.lon, labels[i])]]]]

\* fix_360_longitudes(dataset, project): the exception raised and the
\* dataset returned (on an exception: the argument, which line 145 has
\* already modified in place).
fix_360_longitudes(ds, proj) ==
    LET lonname == IF ~ContainsCERRA(proj) THEN "lon" ELSE "longitude"
        rewrapped ==
            IF NeedsRewrap(ds.lon)
            THEN [ds EXCEPT !.lon = [i \in DOMAIN ds.lon |-> Rewrap(ds.lon[i])]]
            ELSE ds
    IN  IF lonname # ds.lonname THEN [err |-> "KeyError", ds |-> ds]
        ELSE IF ContainsCERRA(proj) THEN [err |-> "none", ds |-> rewrapped]
        ELSE IF rewrapped.lat_ndim = 0
             THEN [err |-> "AttributeError", ds |-> rewrapped]
        ELSE IF rewrapped.lat_ndim # 2
             THEN DatasetReindex(rewrapped, Sorted(rewrapped.lon))
        ELSE [err |-> "none", ds |-> rewrapped]

LonAxes ==
    UNION {{s \in [1..n -> Lons] : ~HasDuplicates(s)} : n \in 1..MaxLon}

LonDatasets ==
    {[lonname |-> n, lon |-> l, cols |-> [i \in DOMAIN l |-> i],
      lon_ndim |-> d, lat_ndim |-> e] :
        n \in {"lon", "longitude"}, l \in LonAxes, d \in {1, 2}, e \in {0, 1, 2}}

\* The Coordinate Normalizer is not part of this specification.
IdleCoord ==
    /\ dataset = [dims |-> {}, coords |-> {}]
    /\ input = dataset
    /\ rules = <<>>
    /\ err = "none"

InitLon ==
    /\ grid \in LonDatasets
    /\ gridIn = grid
    /\ project \in Projects
    /\ lonErr = "none"
    /\ lonCalls = 0
    /\ IdleCoord
    /\ IdleSel
    /\ IdleUnits
    /\ IdlePipe
    /\ IdleDownload

NormalizeLongitudes ==
    /\ lonCalls = 0
    /\ LET r == fix_360_longitudes(grid, project)
       IN  /\ grid' = r.ds
           /\ lonErr' = r.err
    /\ lonCalls' = 1
    /\ UNCHANGED <<gridIn, project>>
    /\ UNCHANGED <<coordVars, selVars, unitVars, pipeVars, downloadVars>>

NextLon == NormalizeLongitudes

SpecLon == InitLon /\ [][NextLon]_vars

(***************************************************************************)
(* Claims about the Longitude Normalizer.                                  *)
(***************************************************************************)
Returned == lonCalls = 1 /\ lonErr = "none"

\* The (longitude, data column) pairs of a dataset.
Pairs(ds) == {<<ds.lon[i], ds.cols[i]>> : i \in DOMAIN ds.lon}

Ascending(s) == \A i, j \in DOMAIN s : i < j => s[i] <= s[j]

AllWithin(s, lo, hi) == \A i \in DOMAIN s : lo <= s[i] /\ s[i] <= hi

\* Every value above 180 replaced by value - 360 and every other value
\* kept, each on its own data column.
RewrappedPairs(ds) ==
    {<<IF ds.lon[i] > 180 THEN ds.lon[i] - 360 ELSE ds.lon[i], ds.cols[i]>> :
        i \in DOMAIN ds.lon}

\* C3 as stated (for axes in the 0..360 convention): when the maximum
\* exceeds 180 and the minimum is non-negative, every value above 180 is
\* replaced by value - 360, the others are kept, and every resulting value
\* lies in the half-open range [-180, 180).
C3_RewrapIntoHalfOpenRange ==
    (Returned /\ NeedsRewrap(gridIn.lon) /\ AllWithin(gridIn.lon, 0, 360)) =>
        /\ Pairs(grid) = RewrappedPairs(gridIn)
        /\ \A i \in DOMAIN grid.lon : -180 <= grid.lon[i] /\ grid.lon[i] < 180

\* C3 amended: when the maximum exceeds 180 and the minimum is non-negative
\* and the call returns, every value above 180 is replaced by value - 360
\* and the others are kept; if no given value exceeds 360, every resulting
\* value lies in (-180, 180], 180 itself being kept.
C3_RewrapIntoClosedRange ==
    (Returned /\ NeedsRewrap(gridIn.lon)) =>
        /\ Pairs(grid) = RewrappedPairs(gridIn)
        /\ AllWithin(gridIn.lon, 0, 360) =>
              \A i \in DOMAIN grid.lon : -180 < grid.lon[i] /\ grid.lon[i] <= 180

\* An axis holding 180 and 270 was rewrapped: 180 is kept, 270 became -90.
C3_Witness ==
    /\ Returned
    /\ NeedsRewrap(gridIn.lon)
    /\ {180, 270} \subseteq Range(gridIn.lon)
    /\ {180, -90} \subseteq Range(grid.lon)

\* C4 as stated: when every longitude value already lies in [-180, 180),
\* the returned dataset has the same values and data in the same positions.
C4_NoOpWithinRange ==
    (Returned /\ AllWithin(gridIn.lon, -180, 179)) => grid = gridIn

\* C4 amended: when every longitude value already lies in [-180, 180) and
\* the call returns, no value changes and every data column stays on its
\* longitude; the positions are kept when the axis is already ascending,
\* the provider identifier contains CERRA or lat is 2-D, and otherwise the
\* axis is re-sorted ascending.
C4_NoOpUpToSorting ==
    (Returned /\ AllWithin(gridIn.lon, -180, 179)) =>
        /\ Pairs(grid) = Pairs(gridIn)
        /\ IF Ascending(gridIn.lon) \/ ContainsCERRA(project)
                \/ gridIn.lat_ndim = 2
           THEN grid = gridIn
           ELSE Ascending(grid.lon) /\ grid.lon # gridIn.lon

\* A descending axis within range was given for a provider other than
\* CERRA, and came back re-sorted.
C4_Witness ==
    /\ Returned
    /\ gridIn.lon = <<90, 0, -10>>
    /\ grid.lon = <<-10, 0, 90>>
    /\ grid.cols = <<3, 2, 1>>

\* The longitude axis after line 145, before any re-sorting.
AfterRewrap(ds) ==
    [i \in DOMAIN ds.lon |->
        IF NeedsRewrap(ds.lon) THEN Rewrap(ds.lon[i]) ELSE ds.lon[i]]

\* C5: the dataset is re-sorted ascending along the longitude axis exactly
\* when the longitude coordinate is 1-D and the provider is not CERRA, each
\* data column staying on its longitude; otherwise the rewrapped values
\* stay in their positions.
C5_SortedExactlyWhenLon1D ==
    Returned =>
        IF gridIn.lon_ndim = 1 /\ ~ContainsCERRA(project)
        THEN /\ Ascending(grid.lon)
             /\ Pairs(grid) =
                    {<<AfterRewrap(gridIn)[i], gridIn.cols[i]>> :
                        i \in DOMAIN gridIn.lon}
        ELSE grid.cols = gridIn.cols /\ grid.lon = AfterRewrap(gridIn)

(***************************************************************************)
(* Variable Selector.  A dataset is, as far as rename_and_delete_variables *)
(* reads it: its data variables (name |-> the data held and the dimensions *)
(* of the variable), its coordinates (name |-> the dimensions of the       *)
(* coordinate, {} for a scalar) and the value of the scalar coordinate     *)
(* height (0: none).  The data of a variable is identified by the name the *)
(* variable had when the dataset was given.                                *)
(***************************************************************************)
Height == 2

main_coords == {"time", "lon", "lat", "height", "x", "y", "latitude", "longitude"}

VarNames == {"tas", "t2m", "pr"}

\* f with key old renamed to new.
RenameKey(f, old, new) ==
    [k \in (DOMAIN f \ {old}) \cup {new} |-> IF k = new THEN f[old] ELSE f[k]]

\* f with key k set to v.
WithKey(f, k, v) == [j \in DOMAIN f \cup {k} |-> IF j = k THEN v ELSE f[j]]

Restrict(f, S) == [k \in S |-> f[k]]

\* The dimensions of a dataset that holds exactly these data variables.
DimsOf(variables) == UNION {variables[v].dims : v \in DOMAIN variables}

\* A plausible slip: no fallback, the failed lookup propagates.
LookupWithoutFallback(v, mapping) ==
    IF v \in DOMAIN mapping
    THEN [err |-> "none", var_name |-> mapping[v]]
    ELSE [err |-> "KeyError", var_name |-> v]

\* try: var_name = var_mapping[variable]  except KeyError: var_name = variable
LookupSource(v, mapping) ==
    IF v \in DOMAIN mapping
    THEN [err |-> "none", var_name |-> mapping[v]]
    ELSE [err |-> "none", var_name |-> v]

\* xarray.Dataset.rename_vars({old: new}): ValueError when old is neither a
\* variable nor a coordinate, ValueError when new is already the name of
\* another one.
RenameVars(ds, old, new) ==
    LET known == DOMAIN ds.vars \cup DOMAIN ds.coords
    IN  IF old \notin known THEN [err |-> "ValueError", ds |-> ds]
        ELSE IF old # new /\ new \in known THEN [err |-> "ValueError", ds |-> ds]
        ELSE IF old \in DOMAIN ds.vars
             THEN [err |-> "none",
                   ds |-> [ds EXCEPT !.vars = RenameKey(ds.vars, old, new)]]
        ELSE [err |-> "none",
              ds |-> [ds EXCEPT !.coords = RenameKey(ds.coords, old, new)]]

\* ds.assign_coords({"height": 2.0})
AssignHeight(ds) ==
    [ds EXCEPT !.coords = WithKey(ds.coords, "height", {}), !.height = Height]

\* ds[[v]]: the data variable v alone, with the coordinates whose
\* dimensions are dimensions of v.
SelectVariable(ds, v) ==
    IF v \notin DOMAIN ds.vars THEN [err |-> "KeyError", ds |-> ds]
    ELSE LET kept == Restrict(ds.vars, {v})
         IN  [err |-> "none",
              ds |-> [ds EXCEPT
                        !.vars = kept,
                        !.coords =
                            Restrict(ds.coords,
                                     {c \in DOMAIN ds.coords :
                                        ds.coords[c] \subseteq DimsOf(kept)})]]

\* A plausible slip: the coordinates are left as they are.
KeepAllCoords(ds) == ds

\* The coordinates outside main_coords are dropped (drop_vars), when the
\* coordinates are not exactly main_coords.
DropOtherCoords(ds) ==
    IF DOMAIN ds.coords # main_coords
    THEN [ds EXCEPT !.coords = Restrict(ds.coords, DOMAIN ds.coords \cap main_coords)]
    ELSE ds

\* if "time" not in list(ds.dims): ds = ds.expand_dims("time"); expand_dims
\* raises ValueError when time is a coordinate that is not a scalar.
ExpandTime(ds) ==
    IF "time" \in DimsOf(ds.vars) THEN [err |-> "none", ds |-> ds]
    ELSE IF "time" \in DOMAIN ds.coords /\ ds.coords["time"] # {}
         THEN [err |-> "ValueError", ds |-> ds]
    ELSE [err |-> "none",
          ds |-> [ds EXCEPT
                    !.vars = [v \in DOMAIN ds.vars |->
                                [ds.vars[v] EXCEPT !.dims = @ \cup {"time"}]],
                    !.coords = [c \in DOMAIN ds.coords |->
                                  IF c = "time" THEN {"time"} ELSE ds.coords[c]]]]

\* rename_and_delete_variables(ds, variable, var_mapping): the exception
\* raised, the source name resolved and the dataset returned.
rename_and_delete_variables(ds, v, mapping) ==
    LET source == LookupSource(v, mapping)
        renamed == RenameVars(ds, source.var_name, v)
        selected == SelectVariable(AssignHeight(renamed.ds), v)
        expanded == ExpandTime(DropOtherCoords(selected.ds))
    IN  IF source.err # "none"
        THEN [err |-> source.err, var_name |-> source.var_name, ds |-> ds]
        ELSE IF renamed.err # "none"
        THEN [err |-> renamed.err, var_name |-> source.var_name, ds |-> ds]
        ELSE IF selected.err # "none"
        THEN [err |-> selected.err, var_name |-> source.var_name, ds |-> ds]
        ELSE [err |-> expanded.err, var_name |-> source.var_name,
              ds |-> IF expanded.err = "none" THEN expanded.ds ELSE ds]

\* The data variables given (name |-> dimensions): up to MaxVars of them,
\* each over (time, y, x) or over (y, x).
SelDataVars ==
    UNION {[S -> {{"time", "y", "x"}, {"y", "x"}}] :
             S \in {T \in SUBSET VarNames : T # {} /\ Cardinality(T) <= MaxVars}}

\* The coordinates given: time (a dimension coordinate, a scalar, or a
\* coordinate along y), a 2-D lon, and the coordinates expver (scalar) and
\* level (along x), which are not in main_coords.
SelCoords ==
    {t @@ l @@ e @@ k :
        t \in {<<>>, [c \in {"time"} |-> {"time"}], [c \in {"time"} |-> {}],
               [c \in {"time"} |-> {"y"}]},
        l \in {<<>>, [c \in {"lon"} |-> {"y", "x"}]},
        e \in {<<>>, [c \in {"expver"} |-> {}]},
        k \in {<<>>, [c \in {"level"} |-> {"x"}]}}

SelDatasets ==
    {[vars |-> [n \in DOMAIN v |-> [data |-> n, dims |-> v[n]]],
      coords |-> IF h = 0 THEN c ELSE WithKey(c, "height", {}),
      height |-> h] :
        v \in SelDataVars, c \in SelCoords, h \in {0, Height, 10}}

VarMappings == {<<>>} \cup {[k \in {"tas"} |-> n] : n \in VarNames}

InitSel ==
    /\ sel \in SelDatasets
    /\ selIn = sel
    /\ variable \in {"tas", "pr"}
    /\ var_mapping \in VarMappings
    /\ var_name = ""
    /\ selErr = "none"
    /\ selCalls = 0
    /\ IdleCoord
    /\ IdleLon
    /\ IdleUnits
    /\ IdlePipe
    /\ IdleDownload

SelectVariables ==
    /\ selCalls = 0
    /\ LET r == rename_and_delete_variables(sel, variable, var_mapping)
       IN  /\ sel' = r.ds
           /\ selErr' = r.err
           /\ var_name' = r.var_name
    /\ selCalls' = 1
    /\ UNCHANGED <<selIn, variable, var_mapping>>
    /\ UNCHANGED <<coordVars, lonVars, unitVars, pipeVars, downloadVars>>

NextSel == SelectVariables

SpecSel == InitSel /\ [][NextSel]_vars

(***************************************************************************)
(* Claims about the Variable Selector.                                     *)
(***************************************************************************)
Selected == selCalls = 1 /\ selErr = "none"

\* C6: after the selector succeeds, the result holds exactly one data
\* variable, named by the canonical name and holding the data of the source
\* variable the map resolves to; it carries the scalar coordinate height =
\* 2.0; every coordinate is in the canonical coordinate set; and it has a
\* time dimension, a new one when the variable had none.
C6_SelectorResult ==
    Selected =>
        LET source == IF variable \in DOMAIN var_mapping
                      THEN var_mapping[variable] ELSE variable
        IN  /\ DOMAIN sel.vars = {variable}
            /\ source \in DOMAIN selIn.vars
            /\ sel.vars[variable].data = selIn.vars[source].data
            /\ sel.vars[variable].dims = selIn.vars[source].dims \cup {"time"}
            /\ "height" \in DOMAIN sel.coords
            /\ sel.coords["height"] = {}
            /\ sel.height = 2
            /\ DOMAIN sel.coords \subseteq
                  {"time", "lon", "lat", "height", "x", "y", "latitude", "longitude"}

\* The map {tas: t2m} selected t2m among two variables of a dataset that
\* had no time dimension, no height, and a coordinate outside the canonical
\* set.
C6_Witness ==
    /\ Selected
    /\ variable = "tas"
    /\ "tas" \in DOMAIN var_mapping
    /\ var_mapping["tas"] = "t2m"
    /\ Cardinality(DOMAIN selIn.vars) = 2
    /\ "time" \notin selIn.vars["t2m"].dims
    /\ "expver" \in DOMAIN selIn.coords
    /\ selIn.height = 0

\* C7: when the canonical name is absent from the variable map, the failed
\* lookup raises nothing: the selector goes on with the canonical name as
\* the source name, so that it selects the data variable of that name, and
\* a dataset without it is rejected by the renaming (ValueError), not by
\* the lookup (KeyError).
C7_LookupFallsBack ==
    (selCalls = 1 /\ variable \notin DOMAIN var_mapping) =>
        /\ selErr # "KeyError"
        /\ var_name = variable
        /\ variable \notin DOMAIN selIn.vars => selErr = "ValueError"
        /\ selErr = "none" =>
              /\ variable \in DOMAIN selIn.vars
              /\ sel.vars[variable].data = selIn.vars[variable].data

\* pr is not in the map {tas: t2m} and was selected under its own name.
C7_Witness ==
    /\ Selected
    /\ variable = "pr"
    /\ DOMAIN var_mapping = {"tas"}
    /\ var_name = "pr"
    /\ DOMAIN sel.vars = {"pr"}

(***************************************************************************)
(* Unit Converter.  A dataset is, as far as convert_units reads it, the    *)
(* list of its data variables in the order of list(ds.data_vars), each     *)
(* with its name, its units attribute (NoUnits: the attribute is missing)  *)
(* and its values, all of them standing for one value.  Values and         *)
(* conversion factors are rational numbers <<numerator, denominator>> in   *)
(* lowest terms.                                                           *)
(***************************************************************************)
RECURSIVE GCD(_, _)
GCD(a, b) == IF b = 0 THEN a ELSE GCD(b, a % b)

Abs(n) == IF n < 0 THEN -n ELSE n

Rat(n, d) ==
    LET g == GCD(Abs(n), Abs(d))
        sign == IF d < 0 THEN -1 ELSE 1
    IN  <<sign * (n \div g), sign * (d \div g)>>

RatMul(a, b) == Rat(a[1] * b[1], a[2] * b[2])

RatAdd(a, b) == Rat(a[1] * b[2] + b[1] * a[2], a[2] * b[2])

\* The entry (scale, offset, unit) of UNIT_CONVERTER.
Entry(scale, offset, unit) == [scale |-> scale, offset |-> offset, unit |-> unit]

ToCelsius == {"Kelvin", "K", "Fahrenheit", "Celsius", "degC"}

ToMillimetres ==
    {"m hour**-1", "mm day**-1", "mm", "m", "mm s**-1", "kg m**-2 day**-1",
     "kg m-2 s-1", "kg m**-2", "kg m-2", "m of water equivalent"}

ToMetresPerSecond ==
    {"m s**-1", "m s-1", "km h**-1", "knots", "kts",
     "mph (nautical miles per hour)"}

UNIT_CONVERTER ==
    [u \in ToCelsius \cup ToMillimetres \cup ToMetresPerSecond \cup {"%", "W m**-2"} |->
        CASE u \in {"Kelvin", "K"} -> Entry(Rat(1, 1), Rat(-27315, 100), "Celsius")
          [] u = "Fahrenheit" -> Entry(Rat(5, 9), Rat(-32 * 5, 9), "Celsius")
          [] u \in {"Celsius", "degC"} -> Entry(Rat(1, 1), Rat(0, 1), "Celsius")
          [] u = "m hour**-1" -> Entry(Rat(1000 * 24, 1), Rat(0, 1), "mm")
          [] u \in {"mm day**-1", "mm", "kg m**-2 day**-1", "kg m**-2", "kg m-2"} ->
                Entry(Rat(1, 1), Rat(0, 1), "mm")
          [] u \in {"m", "m of water equivalent"} ->
                Entry(Rat(1000, 1), Rat(0, 1), "mm")
          [] u \in {"mm s**-1", "kg m-2 s-1"} ->
                Entry(Rat(3600 * 24, 1), Rat(0, 1), "mm")
          [] u \in {"m s**-1", "m s-1"} -> Entry(Rat(1, 1), Rat(0, 1), "m s-1")
          [] u = "km h**-1" -> Entry(Rat(10, 36), Rat(0, 1), "m s-1")
          [] u \in {"knots", "kts", "mph (nautical miles per hour)"} ->
                Entry(Rat(51, 100), Rat(0, 1), "m s-1")
          [] u = "%" -> Entry(Rat(1, 1), Rat(0, 1), "%")
          [] u = "W m**-2" -> Entry(Rat(1, 1), Rat(0, 1), "W m-2")]

VALID_UNITS ==
    [n \in {"tas", "mx2t", "tasmax", "tasmin", "hurs", "clt", "evspsbl", "pr",
            "psl", "prsn", "sisonc", "sfcwind", "uwind", "vwind", "mrso",
            "huss", "sst", "rlds", "rsds", "mslp", "z"} |->
        CASE n \in {"tas", "mx2t", "tasmax", "tasmin", "sst"} -> "Celsius"
          [] n \in {"hurs", "clt", "sisonc"} -> "%"
          [] n = "evspsbl" -> "kg m-2 s-1"
          [] n \in {"pr", "prsn"} -> "mm"
          [] n \in {"psl", "mslp"} -> "Pa"
          [] n = "sfcwind" -> "m s-1"
          [] n \in {"uwind", "vwind"} -> "m s**-1"
          [] n = "mrso" -> "kg m-2"
          [] n = "huss" -> "1"
          [] n \in {"rlds", "rsds"} -> "W m-2"
          [] n = "z" -> "m**2 s**-2"]

NoUnits == "(no units attribute)"

\* A plausible slip: the offset is added before the scaling.
OffsetThenScale(value, conversion) ==
    RatMul(RatAdd(value, conversion.offset), conversion.scale)

\* ds[ds_var] * conversion[0] + conversion[1]
ScaleThenOffset(value, conversion) ==
    RatAdd(RatMul(value, conversion.scale), conversion.offset)

\* The loop of convert_units from the i-th data variable on: the exception
\* raised and the dataset, which every assignment of the loop modifies in
\* place.
RECURSIVE ConvertFrom(_, _)
ConvertFrom(ds, i) ==
    IF i > Len(ds) THEN [err |-> "none", ds |-> ds]
    ELSE IF ds[i].units = NoUnits THEN [err |-> "KeyError", ds |-> ds]
    ELSE IF ds[i].name \notin DOMAIN VALID_UNITS THEN [err |-> "KeyError", ds |-> ds]
    ELSE IF ds[i].units = VALID_UNITS[ds[i].name] THEN ConvertFrom(ds, i + 1)
    ELSE IF ds[i].units \notin DOMAIN UNIT_CONVERTER
         THEN [err |-> "KeyError", ds |-> ds]
    ELSE LET conversion == UNIT_CONVERTER[ds[i].units]
         IN  ConvertFrom(
                 [ds EXCEPT ![i] = [name  |-> ds[i].name,
                                    units |-> conversion.unit,
                                    value |-> ScaleThenOffset(ds[i].value, conversion)]],
                 i + 1)

convert_units(ds) == ConvertFrom(ds, 1)

\* The names and units a data variable is given with: every name of
\* VALID_UNITS and one that is not in it; every unit of UNIT_CONVERTER,
\* every expected unit, one unknown unit and a missing attribute.
UnitNames == DOMAIN VALID_UNITS \cup {"t2m"}

UnitStrings ==
    DOMAIN UNIT_CONVERTER \cup {VALID_UNITS[n] : n \in DOMAIN VALID_UNITS}
        \cup {"furlongs-per-fortnight", NoUnits}

UnitValues == {Rat(0, 1), Rat(10, 1)}

\* One data variable of the dataset ranges over all names, units and
\* values; the others are pr or t2m in a few units.
MainVariables ==
    {[name |-> n, units |-> u, value |-> v] :
        n \in UnitNames, u \in UnitStrings, v \in UnitValues}

OtherVariables ==
    {[name |-> n, units |-> u, value |-> Rat(10, 1)] :
        n \in {"pr", "t2m"}, u \in {"m", "mm", "furlongs-per-fortnight"}}

\* Sequence s with element v put at position p.
InsertAt(s, p, v) ==
    [i \in 1..(Len(s) + 1) |->
        IF i < p THEN s[i] ELSE IF i = p THEN v ELSE s[i - 1]]

DistinctNames(s) == \A i, j \in DOMAIN s : i # j => s[i].name # s[j].name

InitUnits ==
    /\ \E n \in 1..MaxUnitVars :
         \E others \in [1..(n - 1) -> OtherVariables], p \in 1..n,
            main \in MainVariables :
              unitDs = InsertAt(others, p, main)
    /\ DistinctNames(unitDs)
    /\ unitIn = unitDs
    /\ unitPrev = unitDs
    /\ unitErr = "none"
    /\ unitCalls = 0
    /\ IdleCoord
    /\ IdleLon
    /\ IdleSel
    /\ IdlePipe
    /\ IdleDownload

ConvertUnits ==
    /\ unitCalls < MaxCalls
    /\ unitErr = "none"
    /\ LET r == convert_units(unitDs)
       IN  /\ unitDs' = r.ds
           /\ unitErr' = r.err
    /\ unitPrev' = unitDs
    /\ unitCalls' = unitCalls + 1
    /\ UNCHANGED unitIn
    /\ UNCHANGED <<coordVars, lonVars, selVars, pipeVars, downloadVars>>

NextUnits == ConvertUnits

SpecUnits == InitUnits /\ [][NextUnits]_vars

(***************************************************************************)
(* Claims about the Unit Converter.                                        *)
(***************************************************************************)
\* C8: after a successful conversion, every data variable whose recorded
\* unit was the expected unit of its name is unchanged, and every other one
\* holds old_value * scale + offset and the target unit of the table entry
\* of its recorded unit; a variable in K whose expected unit is Celsius
\* holds value - 273.15 in Celsius.
C8_ConvertedByTheTable ==
    (unitCalls = 1 /\ unitErr = "none") =>
        /\ Len(unitDs) = Len(unitIn)
        /\ \A i \in DOMAIN unitIn :
              LET old == unitIn[i]
                  new == unitDs[i]
              IN  /\ new.name = old.name
                  /\ IF old.units = VALID_UNITS[old.name]
                     THEN new = old
                     ELSE LET c == UNIT_CONVERTER[old.units]
                          IN  /\ new.value = RatAdd(RatMul(old.value, c.scale), c.offset)
                              /\ new.units = c.unit
                  /\ (old.units = "K" /\ VALID_UNITS[old.name] = "Celsius") =>
                        /\ new.units = "Celsius"
                        /\ new.value = RatAdd(old.value, <<-5463, 20>>)
                  /\ (old.units = "Fahrenheit" /\ old.value = <<10, 1>>) =>
                        new.value = <<-110, 9>>

\* tas was given as 10 K and holds -263.15 Celsius.
C8_Witness ==
    /\ unitCalls = 1
    /\ unitErr = "none"
    /\ \E i \in DOMAIN unitIn :
          /\ unitIn[i] = [name |-> "tas", units |-> "K", value |-> <<10, 1>>]
          /\ unitDs[i] = [name |-> "tas", units |-> "Celsius", value |-> <<-5263, 20>>]

\* A data variable the converter cannot map: its name has no expected
\* unit, or its recorded unit is not the expected one and has no table
\* entry.
Unmappable(v) ==
    \/ v.name \notin DOMAIN VALID_UNITS
    \/ /\ v.units # VALID_UNITS[v.name]
       /\ v.units \notin DOMAIN UNIT_CONVERTER

\* C9: the converter fails with the missing-mapping error whenever some
\* data variable cannot be mapped, and when it fails the dataset it was
\* given is unmodified: no data variable has changed values or units.
C9_FailureLeavesDatasetUnmodified ==
    unitCalls = 1 =>
        /\ (\E i \in DOMAIN unitIn : Unmappable(unitIn[i])) => unitErr = "KeyError"
        /\ unitErr # "none" => unitDs = unitIn

\* C10: when the converter succeeded, applying it a second time succeeds
\* too and leaves every value and every units attribute as the first
\* application left them.
C10_SecondPassIsNoOp ==
    unitCalls = 2 => (unitErr = "none" /\ unitDs = unitPrev)

(***************************************************************************)
(* preprocess.  A dataset is here what the four stages together read of    *)
(* it: its data variables (name |-> the data held, the dimensions, the     *)
(* units attribute and the values, all of them standing for one value),    *)
(* its coordinates (name |-> the dimensions of the coordinate), the value  *)
(* of the scalar coordinate height (0: none), the values along the x axis  *)
(* of the coordinates that lie along it, and the data column attached to   *)
(* each position of the x axis.  A dimension of a variable that is not a   *)
(* coordinate is a dimension without a coordinate variable.                *)
(***************************************************************************)
\* dataset.dims
PipeDims(ds) ==
    DimsOf(ds.vars) \cup UNION {ds.coords[c] : c \in DOMAIN ds.coords}

\* The dataset as the Coordinate Normalizer reads it.
CoordView(ds) == [dims |-> PipeDims(ds), coords |-> DOMAIN ds.coords]

\* f with every key renamed by name_dict (no two keys get the same name).
RenameKeys(f, name_dict) ==
    [k \in {Renamed(name_dict, j) : j \in DOMAIN f} |->
        f[CHOOSE j \in DOMAIN f : Renamed(name_dict, j) = k]]

\* xarray.Dataset.rename(name_dict), on the whole dataset: the coordinates
\* and the dimensions of every variable and coordinate are renamed.
RenameAll(ds, name_dict) ==
    LET renamed == RenameKeys(ds.coords, name_dict)
    IN  [ds EXCEPT
           !.vars = [v \in DOMAIN ds.vars |->
                       [ds.vars[v] EXCEPT
                          !.dims = {Renamed(name_dict, d) : d \in @}]],
           !.coords = [c \in DOMAIN renamed |->
                         {Renamed(name_dict, d) : d \in renamed[c]}]]

\* ds = fix_spatial_coord_names(ds)
CoordStage(ds) ==
    LET r == fix_spatial_coord_names(CoordView(ds))
    IN  IF r.err # "none" THEN [err |-> r.err, ds |-> ds]
        ELSE [err |-> "none", ds |-> RenameAll(ds, RuleMap(r.rule))]

\* ds = rename_and_delete_variables(ds, variable, variable_map)
SelectStage(ds, v, mapping) ==
    LET r == rename_and_delete_variables(ds, v, mapping)
    IN  [err |-> r.err, ds |-> r.ds]

\* dataset[n] and dataset.n find a coordinate, or a dimension without a
\* coordinate (whose values are then 0, 1, ... along the dimension).
Visible(ds, n) == n \in DOMAIN ds.coords \cup PipeDims(ds)

\* len(dataset[n].shape), 0 when the dataset has no n.
Ndim(ds, n) ==
    IF n \in DOMAIN ds.coords THEN Cardinality(ds.coords[n])
    ELSE IF n \in PipeDims(ds) THEN 1
    ELSE 0

\* The dataset as the Longitude Normalizer reads it when it looks its
\* longitude up under the name n.
LonView(ds, n) ==
    [lonname  |-> IF Visible(ds, n) THEN n ELSE "",
     lon      |-> IF n \in DOMAIN ds.coords THEN ds.lon
                  ELSE IF Visible(ds, n) THEN [i \in DOMAIN ds.cols |-> i - 1]
                  ELSE <<>>,
     cols     |-> ds.cols,
     lon_ndim |-> Ndim(ds, n),
     lat_ndim |-> Ndim(ds, "lat")]

\* ds = fix_360_longitudes(ds, project=project)
LonStage(ds, proj) ==
    LET n == IF ContainsCERRA(proj) THEN "longitude" ELSE "lon"
        r == fix_360_longitudes(LonView(ds, n), proj)
    IN  [err |-> r.err,
         ds  |-> IF n \in DOMAIN ds.coords
                 THEN [ds EXCEPT !.lon = r.ds.lon, !.cols = r.ds.cols]
                 ELSE ds]

\* The dataset as the Unit Converter reads it: the Variable Selector has
\* left one data variable.
UnitView(ds) ==
    LET n == CHOOSE v \in DOMAIN ds.vars : TRUE
    IN  <<[name |-> n, units |-> ds.vars[n].units, value |-> ds.vars[n].value]>>

\* ds = convert_units(ds)
UnitStage(ds) ==
    LET r == convert_units(UnitView(ds))
    IN  [err |-> r.err,
         ds  |-> [ds EXCEPT
                    !.vars = [n \in DOMAIN ds.vars |->
                                [ds.vars[n] EXCEPT
                                   !.units = r.ds[1].units,
                                   !.value = r.ds[1].value]]]]

\* The calls of preprocess, in the order of its statements.
Stages ==
    <<"fix_spatial_coord_names", "rename_and_delete_variables",
      "fix_360_longitudes", "convert_units">>

\* A plausible slip: the exception of a stage is swallowed and preprocess
\* goes on with the dataset it holds.
FollowingDespiteErrors(s, e) ==
    CASE s = "fix_spatial_coord_names" -> "rename_and_delete_variables"
      [] s = "rename_and_delete_variables" -> "fix_360_longitudes"
      [] s = "fix_360_longitudes" -> "convert_units"
      [] s = "convert_units" -> "return"

\* Where preprocess goes after statement s, which raised e: no statement of
\* preprocess catches an exception, so it leaves with the exception of the
\* stage; otherwise the next statement runs.
Following(s, e) ==
    IF e # "none" THEN "raised"
    ELSE CASE s = "fix_spatial_coord_names" -> "rename_and_delete_variables"
           [] s = "rename_and_delete_variables" -> "fix_360_longitudes"
           [] s = "fix_360_longitudes" -> "convert_units"
           [] s = "convert_units" -> "return"

\* The coordinates of a grid over the dimensions (y, x): the dimension
\* coordinates axes and the coordinates twoD over (y, x).
GridCoords(y, x, axes, twoD) ==
    [c \in axes \cup twoD |-> IF c \in twoD THEN {y, x} ELSE {c}]

\* The grids of the datasets given: <<y, x, axes, twoD>> for a rotated grid
\* with geographic coordinates, an index grid with geographic coordinates,
\* a rotated grid, a regular lon/lat grid, a projected grid with 2-D lon and
\* lat, the grid of a CERRA file, a projected grid, the grid of an ERA5
\* file, a grid under names the normalizer does not know, and a section
\* along lon.
PipeGrids ==
    {<<"rlat", "rlon", {"rlat", "rlon"}, {"latitude", "longitude"}>>,
     <<"j", "i", {}, {"latitude", "longitude"}>>,
     <<"rlat", "rlon", {"rlat", "rlon"}, {}>>,
     <<"lat", "lon", {"lat", "lon"}, {}>>,
     <<"y", "x", {"y", "x"}, {"lat", "lon"}>>,
     <<"y", "x", {}, {"latitude", "longitude"}>>,
     <<"y", "x", {"y", "x"}, {}>>,
     <<"latitude", "longitude", {"latitude", "longitude"}, {}>>,
     <<"south_north", "west_east", {}, {"XLAT", "XLONG"}>>,
     <<"level", "lon", {"level", "lon"}, {}>>}

PipeUnits == {"K", "Celsius", "furlongs-per-fortnight"}

PipeAxes == {<<0, 270>>, <<-10, 0>>, <<270, 0, 270>>}

\* A dataset over grid g with the data variable n in units u, a second data
\* variable pr when more, a time dimension when t, and the values l along
\* the x axis.
PipeDataset(g, n, u, more, t, l) ==
    LET dims == {g[1], g[2]} \cup (IF t THEN {"time"} ELSE {})
        names == {n} \cup (IF more THEN {"pr"} ELSE {})
    IN  [vars   |-> [v \in names |->
                       [data |-> v, dims |-> dims,
                        units |-> IF v = n THEN u ELSE "m",
                        value |-> Rat(10, 1)]],
         coords |-> GridCoords(g[1], g[2], g[3], g[4])
                        @@ (IF t THEN [c \in {"time"} |-> {"time"}] ELSE <<>>),
         height |-> 0,
         lon    |-> l,
         cols   |-> [i \in DOMAIN l |-> i]]

PipeDatasets ==
    {PipeDataset(g, n, u, more, t, l) :
        g \in PipeGrids, n \in {"t2m", "tas"}, u \in PipeUnits,
        more \in BOOLEAN, t \in BOOLEAN, l \in PipeAxes}

InitPreprocess ==
    /\ pipeIn \in PipeDatasets
    /\ pipeDs = pipeIn
    /\ pipeProject \in Projects
    /\ pipeVariable = "tas"
    /\ pipeMap \in {<<>>, [k \in {"tas"} |-> "t2m"]}
    /\ pc = "fix_spatial_coord_names"
    /\ ran = <<>>
    /\ given = <<>>
    /\ outs = <<>>
    /\ raised = "none"
    /\ result = NoDataset
    /\ IdleCoord
    /\ IdleLon
    /\ IdleSel
    /\ IdleUnits
    /\ IdleDownload

CallFixSpatialCoordNames ==
    /\ pc = "fix_spatial_coord_names"
    /\ LET r == CoordStage(pipeDs)
       IN  /\ pipeDs' = r.ds
           /\ outs' = Append(outs, r)
           /\ raised' = r.err
           /\ pc' = Following(pc, r.err)
    /\ ran' = Append(ran, pc)
    /\ given' = Append(given, pipeDs)
    /\ UNCHANGED <<pipeIn, pipeProject, pipeVariable, pipeMap, result>>
    /\ UNCHANGED <<coordVars, lonVars, selVars, unitVars, downloadVars>>

CallRenameAndDeleteVariables ==
    /\ pc = "rename_and_delete_variables"
    /\ LET r == SelectStage(pipeDs, pipeVariable, pipeMap)
       IN  /\ pipeDs' = r.ds
           /\ outs' = Append(outs, r)
           /\ raised' = r.err
           /\ pc' = Following(pc, r.err)
    /\ ran' = Append(ran, pc)
    /\ given' = Append(given, pipeDs)
    /\ UNCHANGED <<pipeIn, pipeProject, pipeVariable, pipeMap, result>>
    /\ UNCHANGED <<coordVars, lonVars, selVars, unitVars, downloadVars>>

CallFix360Longitudes ==
    /\ pc = "fix_360_longitudes"
    /\ LET r == LonStage(pipeDs, pipeProject)
       IN  /\ pipeDs' = r.ds
           /\ outs' = Append(outs, r)
           /\ raised' = r.err
           /\ pc' = Following(pc, r.err)
    /\ ran' = Append(ran, pc)
    /\ given' = Append(given, pipeDs)
    /\ UNCHANGED <<pipeIn, pipeProject, pipeVariable, pipeMap, result>>
    /\ UNCHANGED <<coordVars, lonVars, selVars, unitVars, downloadVars>>

CallConvertUnits ==
    /\ pc = "convert_units"
    /\ LET r == UnitStage(pipeDs)
       IN  /\ pipeDs' = r.ds
           /\ outs' = Append(outs, r)
           /\ raised' = r.err
           /\ pc' = Following(pc, r.err)
    /\ ran' = Append(ran, pc)
    /\ given' = Append(given, pipeDs)
    /\ UNCHANGED <<pipeIn, pipeProject, pipeVariable, pipeMap, result>>
    /\ UNCHANGED <<coordVars, lonVars, selVars, unitVars, downloadVars>>

\* return ds
ReturnDataset ==
    /\ pc = "return"
    /\ result' = pipeDs
    /\ pc' = "returned"
    /\ UNCHANGED <<pipeDs, pipeIn, pipeProject, pipeVariable, pipeMap, ran,
                   given, outs, raised>>
    /\ UNCHANGED <<coordVars, lonVars, selVars, unitVars, downloadVars>>

NextPreprocess ==
    \/ CallFixSpatialCoordNames
    \/ CallRenameAndDeleteVariables
    \/ CallFix360Longitudes
    \/ CallConvertUnits
    \/ ReturnDataset

SpecPreprocess == InitPreprocess /\ [][NextPreprocess]_vars

(***************************************************************************)
(* Claims about preprocess.                                                *)
(***************************************************************************)
\* C11: preprocess calls its stages in the order Coordinate Normalizer,
\* Variable Selector, Longitude Normalizer, Unit Converter, each with the
\* dataset the stage before it returned (the first with the dataset given);
\* when a stage raises, its exception reaches the caller, it is the last
\* stage called and no dataset is returned; a dataset is returned only after
\* all four stages succeeded, and it is the one the Unit Converter returned.
C11_FixedOrderAndFailurePropagates ==
    /\ Len(ran) <= Len(Stages)
    /\ \A k \in DOMAIN ran :
         /\ ran[k] = Stages[k]
         /\ given[k] = IF k = 1 THEN pipeIn ELSE outs[k - 1].ds
         /\ outs[k].err # "none" =>
               /\ k = Len(ran)
               /\ pc = "raised"
               /\ raised = outs[k].err
    /\ raised # "none" => pc = "raised"
    /\ pc = "raised" =>
         /\ ran # <<>>
         /\ outs[Len(ran)].err # "none"
         /\ result = NoDataset
    /\ result # NoDataset => pc = "returned"
    /\ pc = "returned" =>
         /\ ran = Stages
         /\ raised = "none"
         /\ result = outs[Len(Stages)].ds

\* The Longitude Normalizer raised after the first two stages succeeded:
\* the Unit Converter was not called and nothing was returned.
C11_Witness ==
    /\ pc = "raised"
    /\ Len(ran) = 3
    /\ ran[3] = "fix_360_longitudes"
    /\ outs[1].err = "none"
    /\ outs[2].err = "none"
    /\ raised = "ValueError"
    /\ result = NoDataset

(***************************************************************************)
(* download_cerra_data (provider/download.py).  A Python value is a record *)
(* of its kind (None, str, list, int) and its content; a string is the     *)
(* sequence of its characters, so that formatting, splitting and parsing   *)
(* are what they are in the code.  The file system is the set of paths of  *)
(* the files and the set of paths of the directories that exist.           *)
(***************************************************************************)
PyNone == [kind |-> "None"]

PyStr(chars) == [kind |-> "str", val |-> chars]

PyList(items) == [kind |-> "list", val |-> items]

PyInt(n) == [kind |-> "int", val |-> n]

\* bool(v): None, the empty string, the empty list and 0 are false.
Truthy(v) ==
    CASE v.kind = "None" -> FALSE
      [] v.kind = "int" -> v.val # 0
      [] OTHER -> v.val # <<>>

Digits == <<"0", "1", "2", "3", "4", "5", "6", "7", "8", "9">>

DigitValue(c) == (CHOOSE i \in DOMAIN Digits : Digits[i] = c) - 1

\* int(s), for a string of digits.
RECURSIVE ParseInt(_)
ParseInt(chars) ==
    IF chars = <<>> THEN 0
    ELSE 10 * ParseInt(SubSeq(chars, 1, Len(chars) - 1))
            + DigitValue(chars[Len(chars)])

\* str(n), for n >= 0.
RECURSIVE Decimal(_)
Decimal(n) ==
    IF n < 10 THEN <<Digits[n + 1]>>
    ELSE Decimal(n \div 10) \o <<Digits[(n % 10) + 1]>>

\* "{:02.0f}".format(n), for 0 <= n < 100.
TwoDigits(n) == <<Digits[(n \div 10) + 1], Digits[(n % 10) + 1]>>

\* sep.join(parts)
RECURSIVE Join(_, _)
Join(parts, sep) ==
    IF parts = <<>> THEN <<>>
    ELSE IF Len(parts) = 1 THEN parts[1]
    ELSE parts[1] \o sep \o Join(Tail(parts), sep)

\* repr(v), for a string or an int.
Repr(v) == IF v.kind = "str" THEN <<"'">> \o v.val \o <<"'">> ELSE Decimal(v.val)

\* str(v), as "{0}".format(v) and an f-string write it.
Text(v) ==
    CASE v.kind = "str" -> v.val
      [] v.kind = "int" -> Decimal(v.val)
      [] v.kind = "None" -> <<"N", "o", "n", "e">>
      [] v.kind = "list" ->
            <<"[">> \o Join([i \in DOMAIN v.val |-> Repr(v.val[i])], <<",", " ">>)
                \o <<"]">>

\* chars.split(sep)[0]
RECURSIVE SplitFirst(_, _)
SplitFirst(chars, sep) ==
    IF chars = <<>> \/ Head(chars) = sep THEN <<>>
    ELSE <<Head(chars)>> \o SplitFirst(Tail(chars), sep)

\* calendar.monthrange(year, month)[1]
DaysInMonth(y, m) ==
    CASE m = 2 -> IF (y % 4 = 0 /\ y % 100 # 0) \/ y % 400 = 0 THEN 29 ELSE 28
      [] m \in {4, 6, 9, 11} -> 30
      [] OTHER -> 31

\* "reanalysis-cerra-single-levels"
CatalogueEntry ==
    <<"r", "e", "a", "n", "a", "l", "y", "s", "i", "s", "-", "c", "e", "r",
      "r", "a", "-", "s", "i", "n", "g", "l", "e", "-", "l", "e", "v", "e",
      "l", "s">>

NoPath == <<>>

\* get_output_path(catalogue_entry, output_directory, variable, day, month,
\* year, hour): the exception raised (hour.split on a list) and the path.
get_output_path(catalogue_entry, output_directory, v, day, month, year, hour) ==
    LET date_str ==
            IF Truthy(day) /\ Truthy(hour)
            THEN Text(day) \o Text(month) \o Text(year) \o <<"_">>
                    \o SplitFirst(hour.val, ":")
            ELSE IF Truthy(day) /\ ~Truthy(hour)
            THEN Text(day) \o Text(month) \o Text(year)
            ELSE Text(month) \o Text(year)
    IN  IF Truthy(day) /\ Truthy(hour) /\ hour.kind # "str"
        THEN [err |-> "AttributeError", path |-> NoPath]
        ELSE [err |-> "none",
              path |-> Text(output_directory) \o <<"/">> \o catalogue_entry
                          \o <<"/">> \o Text(v) \o <<"/">> \o Text(v)
                          \o <<"_">> \o date_str \o <<".", "n", "c">>]

\* output_path.parent: the path up to its last "/".
RECURSIVE Parent(_)
Parent(path) ==
    IF path = <<>> THEN <<>>
    ELSE IF path[Len(path)] = "/" THEN SubSeq(path, 1, Len(path) - 1)
    ELSE Parent(SubSeq(path, 1, Len(path) - 1))

\* A plausible slip: range(1, days_in_month), which leaves the last day out.
RequestedDaysButTheLast(day, year, month) ==
    IF ~Truthy(day)
    THEN PyList([d \in 1..(DaysInMonth(ParseInt(year.val), ParseInt(month.val)) - 1)
                    |-> PyInt(d)])
    ELSE day

\* The day of the request: every day of the month when no day was given.
RequestedDays(day, year, month) ==
    IF ~Truthy(day)
    THEN PyList([d \in 1..DaysInMonth(ParseInt(year.val), ParseInt(month.val))
                    |-> PyInt(d)])
    ELSE day

\* The time of the request: every third hour when no time was given.
RequestedTimes(time) ==
    IF ~Truthy(time)
    THEN PyList([k \in 1..8 |-> PyStr(TwoDigits(3 * (k - 1)) \o <<":", "0", "0">>)])
    ELSE time

\* What c.retrieve can do: write the target file and return, return
\* without a file (a mocked client), or raise.
ArchiveOutcomes == {"written", "not written", "raised"}

\* download_cerra_data(**a) on the file system (fs, directories), when the
\* archive, if it is asked, answers with outcome: the files and directories
\* afterwards and the record of the call (whether the destination existed,
\* the clients created, the calls of retrieve, the exception that reached
\* the caller and the path returned).
download_cerra_data(a, fs, directories, outcome) ==
    LET output_path ==
            get_output_path(CatalogueEntry, a.output_directory, a.variable,
                            a.day, a.month, a.year, a.time)
        request ==
            [variable     |-> a.variable,
             level_type   |-> a.level_type,
             data_type    |-> a.data_type,
             product_type |-> a.product_type,
             year         |-> a.year,
             month        |-> a.month,
             day          |-> RequestedDays(a.day, a.year, a.month),
             time         |-> RequestedTimes(a.time),
             format       |-> a.fmt]
    IN  IF output_path.err # "none"
        THEN [files |-> fs, dirs |-> directories,
              call |-> [existed |-> FALSE, clients |-> 0, retrieved |-> <<>>,
                        err |-> output_path.err, returned |-> NoPath]]
        ELSE IF output_path.path \in fs
        THEN [files |-> fs, dirs |-> directories,
              call |-> [existed |-> TRUE, clients |-> 0, retrieved |-> <<>>,
                        err |-> "none", returned |-> output_path.path]]
        ELSE [files |-> IF outcome = "written"
                        THEN fs \cup {output_path.path} ELSE fs,
              dirs  |-> directories \cup {Parent(output_path.path)},
              call  |-> [existed   |-> FALSE,
                         clients   |-> 1,
                         retrieved |-> <<[entry   |-> CatalogueEntry,
                                          request |-> request,
                                          target  |-> output_path.path,
                                          outcome |-> outcome]>>,
                         err       |-> IF outcome = "raised"
                                       THEN "Exception" ELSE "none",
                         returned  |-> IF outcome = "raised"
                                       THEN NoPath ELSE output_path.path]]

\* The arguments of the calls: two variables, a leap year and another, two
\* months, a day and a time given as a string, as a list, as None or empty.
DownloadVariables ==
    {PyStr(<<"2", "m", "_", "t", "e", "m", "p", "e", "r", "a", "t", "u", "r",
            "e">>),
     PyStr(<<"t", "o", "t", "a", "l", "_", "p", "r", "e", "c", "i", "p", "i",
            "t", "a", "t", "i", "o", "n">>)}

DownloadYears == {PyStr(<<"2", "0", "2", "1">>), PyStr(<<"2", "0", "2", "0">>)}

DownloadMonths == {PyStr(<<"0", "1">>), PyStr(<<"0", "2">>)}

DownloadDays ==
    {PyNone, PyStr(<<>>), PyStr(<<"0", "1">>), PyStr(<<"1", "5">>),
     PyList(<<PyStr(<<"0", "1">>), PyStr(<<"1", "5">>)>>)}

DownloadTimes ==
    {PyNone, PyStr(<<"0", "0", ":", "0", "0">>), PyStr(<<"1", "2", ":", "0", "0">>),
     PyStr(<<"0", "6">>),
     PyList(<<PyStr(<<"0", "0", ":", "0", "0">>), PyStr(<<"1", "2", ":", "0", "0">>)>>)}

DownloadFormats ==
    {PyStr(<<"n", "e", "t", "c", "d", "f">>),
     PyStr(<<"g", "r", "i", "b">>)}

DownloadDirectories ==
    {PyStr(<<"/", "t", "m", "p">>), PyStr(<<"/", "d", "a", "t", "a">>)}

DownloadArguments ==
    {[variable |-> v,
      level_type |->
        PyStr(<<"s", "u", "r", "f", "a", "c", "e", "_", "o", "r", "_", "a",
                "t", "m", "o", "s", "p", "h", "e", "r", "e">>),
      data_type |-> PyStr(<<"r", "e", "a", "n", "a", "l", "y", "s", "i", "s">>),
      product_type |-> PyStr(<<"a", "n", "a", "l", "y", "s", "i", "s">>),
      year |-> y, month |-> m, day |-> d, time |-> t, fmt |-> f,
      output_directory |-> o] :
        v \in DownloadVariables, y \in DownloadYears, m \in DownloadMonths,
        d \in DownloadDays, t \in DownloadTimes, f \in DownloadFormats,
        o \in DownloadDirectories}

\* The destination of a call with arguments a, when it has one.
Destinations(a) ==
    LET p == get_output_path(CatalogueEntry, a.output_directory, a.variable,
                             a.day, a.month, a.year, a.time)
    IN  IF p.err = "none" THEN {p.path} ELSE {}

InitDownload ==
    /\ dlArgs \in DownloadArguments
    /\ files \in SUBSET Destinations(dlArgs)
    /\ dirs = {Parent(f) : f \in files}
    /\ dlLog = <<>>
    /\ IdleCoord
    /\ IdleLon
    /\ IdleSel
    /\ IdleUnits
    /\ IdlePipe

DownloadCerraData ==
    /\ Len(dlLog) < MaxDownloads
    /\ \E outcome \in ArchiveOutcomes :
         LET r == download_cerra_data(dlArgs, files, dirs, outcome)
         IN  /\ files' = r.files
             /\ dirs' = r.dirs
             /\ dlLog' = Append(dlLog, r.call)
    /\ UNCHANGED dlArgs
    /\ UNCHANGED <<coordVars, lonVars, selVars, unitVars, pipeVars>>

NextDownload == DownloadCerraData

SpecDownload == InitDownload /\ [][NextDownload]_vars

(***************************************************************************)
(* Claims about download_cerra_data.                                       *)
(***************************************************************************)
\* <output_directory>/reanalysis-cerra-single-levels/<variable>/
\* <variable>_<date>.nc
PathWithDate(a, date) ==
    Text(a.output_directory) \o <<"/">> \o CatalogueEntry \o <<"/">>
        \o Text(a.variable) \o <<"/">> \o Text(a.variable) \o <<"_">> \o date
        \o <<".", "n", "c">>

\* <HH> of a time HH:MM.
Hours(time) == IF time.kind = "str" THEN SplitFirst(time.val, ":") ELSE Text(time)

\* The path with the date <day><month><year>_<HH>.
DatedPath(a) ==
    PathWithDate(a, Text(a.day) \o Text(a.month) \o Text(a.year) \o <<"_">>
                        \o Hours(a.time))

\* The request with every parameter as the caller gave it.
RequestAsGiven(a) ==
    [variable |-> a.variable, level_type |-> a.level_type,
     data_type |-> a.data_type, product_type |-> a.product_type,
     year |-> a.year, month |-> a.month, day |-> a.day, time |-> a.time,
     format |-> a.fmt]

\* The arguments of the calls of retrieve made by call c.
RetrieveArguments(c) ==
    [i \in DOMAIN c.retrieved |->
        [entry |-> c.retrieved[i].entry, request |-> c.retrieved[i].request,
         target |-> c.retrieved[i].target]]

ArchiveRaised(c) == \E i \in DOMAIN c.retrieved : c.retrieved[i].outcome = "raised"

ArchiveWrote(c) == \E i \in DOMAIN c.retrieved : c.retrieved[i].outcome = "written"

EveryRetrieveWroteTheFile ==
    \A k \in DOMAIN dlLog : dlLog[k].retrieved # <<>> => ArchiveWrote(dlLog[k])

\* No more than one call of retrieve over all the calls so far.
AtMostOneRetrieve ==
    /\ \A k \in DOMAIN dlLog : Len(dlLog[k].retrieved) <= 1
    /\ Cardinality({k \in DOMAIN dlLog : dlLog[k].retrieved # <<>>}) <= 1

DateOfPath(a) ==
    IF Truthy(a.day) /\ Truthy(a.time)
    THEN Text(a.day) \o Text(a.month) \o Text(a.year) \o <<"_">> \o Hours(a.time)
    ELSE IF Truthy(a.day) THEN Text(a.day) \o Text(a.month) \o Text(a.year)
    ELSE Text(a.month) \o Text(a.year)

Clock(h) == PyStr(TwoDigits(h) \o <<":", "0", "0">>)

\* The request sent: the parameters as given, but every day of the month
\* for a day that is None or empty and every third hour for a time that is
\* None or empty.
RequestWithDefaults(a) ==
    [RequestAsGiven(a) EXCEPT
       !.day = IF Truthy(a.day) THEN a.day
               ELSE PyList([d \in 1..DaysInMonth(ParseInt(a.year.val),
                                                 ParseInt(a.month.val))
                               |-> PyInt(d)]),
       !.time = IF Truthy(a.time) THEN a.time
                ELSE PyList(<<Clock(0), Clock(3), Clock(6), Clock(9), Clock(12),
                              Clock(15), Clock(18), Clock(21)>>)]

\* A day is given and the time is a non-empty list: get_output_path splits
\* the time as a string.
TimeListWithDay(a) == Truthy(a.day) /\ Truthy(a.time) /\ a.time.kind = "list"

SelectedLonName(proj) == IF ContainsCERRA(proj) THEN "longitude" ELSE "lon"

\* C13: for every provider identifier and every dataset on which the
\* Coordinate Normalizer and the Variable Selector succeed, the dataset
\* handed to the Longitude Normalizer carries the coordinates that stage
\* reads (longitude for a CERRA provider, lon and lat for any other), and
\* the Longitude Normalizer does not fail on a missing name.
C13_LongitudeStageFindsItsCoordinates ==
    (Len(outs) >= 2 /\ outs[1].err = "none" /\ outs[2].err = "none") =>
        /\ Visible(outs[2].ds, SelectedLonName(pipeProject))
        /\ ~ContainsCERRA(pipeProject) => Visible(outs[2].ds, "lat")
        /\ Len(outs) >= 3 => outs[3].err \notin {"KeyError", "AttributeError"}

====
